---- MODULE Spec2Model ----
(***************************************************************************)
(* State-machine model of the trading execution engine                     *)
(* (src/src/trading/engine.rs) with its collaborators: the exchange client *)
(* (src/src/api/binance.rs), the notifier (src/src/api/discord.rs) and the *)
(* price feed / trade store (crate::data::DataManager).  The notifier's     *)
(* rate limiter and the TradingEngine of src/src/trading/mod.rs, the one    *)
(* TradingBot owns, are modelled beside it, each with a specification of    *)
(* its own.                                                                 *)
(*                                                                         *)
(* Every `.await` of the source is a step boundary: an action is the code  *)
(* that runs between two suspension points of one call.  tokio RwLock      *)
(* guards that are taken and dropped inside one such stretch are atomic;   *)
(* the position-map write guard of update_position is held across the      *)
(* position notification and is modelled by positions_lock.                *)
(*                                                                         *)
(* Decimal values: quantities are whole units; money (prices, average      *)
(* price, P&L) is an integer number of 1/DecScale units.                   *)
(***************************************************************************)
EXTENDS Integers, Sequences, FiniteSets, TLC

\* ------------------------------------------------------------------ bounds
\* Total number of execute_trade, start() and stop() calls begun in one
\* behaviour.
MaxCalls == 2
\* Number of start() and stop() calls begun in a behaviour without trades.
MaxLifecycleCalls == 3
\* The risk check by itself: trades the rest of the engine completes
\* between the checks.
MaxRiskMoves == 1
\* Money is carried with DecScale units per whole (Decimal carries 28 digits).
DecScale == 100
\* The position book by itself: trades applied in one behaviour.
MaxBookTrades == 4
\* The engine of trading/mod.rs by itself: calls made in one behaviour.
MaxBotCalls == 4

\* Tasks calling execute_trade concurrently, and tasks calling start()/stop().
Callers == {"c1", "c2"}
Ops == {"o1"}
Symbols == {"BTCUSDT", "ETHUSDT"}
\* Tasks sending notifications concurrently.
Senders == {"n1", "n2"}
\* Readings of the wall clock, in seconds since the notifier was built.
ClockTimes == {0, 1, 59, 60, 61, 120}
\* Prices the feed can report.
Prices == {4000 * DecScale, 5000 * DecScale, 6000 * DecScale}

\* ------------------------------------------------------- program constants
\* unwrap_or(Decimal::from(50000)): the price used when the feed has none.
DefaultPrice == 50000
\* config.trading.max_position_size (default configuration).
max_position_size == 10000

\* RateLimiter.max_messages_per_minute as DiscordNotifier::new sets it.
max_messages_per_minute == 30
\* The length of the limiter's window, in seconds.
WindowSeconds == 60
\* `as u64` is taken modulo U64Modulus.  It stands for 2^64 and is kept inside
\* the integers of the checker; it is far above every time of the model, so
\* a negative number of seconds wraps to a large one as it does at 64 bits.
U64Modulus == 1073741824

\* ---------------------------------------------------------------- options
None == <<>>
Some(x) == <<x>>
IsSome(o) == Len(o) = 1
Unwrap(o) == o[1]
UnwrapOr(o, d) == IF IsSome(o) THEN o[1] ELSE d

\* The requests callers make: (symbol, side, quantity, order_type, price).
\* Quantities are positive, as the data model requires of Order.quantity.
\* At the prices of the feed a quantity of 1 is under the risk limit, 2 is
\* under it, exactly on it or over it, and 3 is over it.  execute_trade takes
\* order_type and price as they come: the last request is a Limit order
\* without a price.
Requests ==
    {<<"BTCUSDT", "Buy", 1, "Market", None>>,
     <<"BTCUSDT", "Buy", 2, "Limit", Some(4000 * DecScale)>>,
     <<"BTCUSDT", "Sell", 1, "Market", None>>,
     <<"BTCUSDT", "Sell", 2, "Market", None>>,
     <<"ETHUSDT", "Buy", 1, "Market", None>>,
     <<"ETHUSDT", "Buy", 3, "Market", None>>,
     <<"ETHUSDT", "Sell", 1, "Limit", None>>}

VARIABLES
    live_trading,     \* config.trading.live_trading
    is_running,       \* TradingEngine.is_running
    positions,        \* TradingEngine.positions: symbol -> Position
    positions_lock,   \* holder of the positions write guard, or None
    active_orders,    \* TradingEngine.active_orders: order id -> Order
    next_order_id,    \* stands for Uuid::new_v4(): ids are fresh
    pc,               \* per caller: where its execute_trade call is
    call,             \* per caller: arguments and locals of the call
    result,           \* per caller: what the last call returned
    touched,          \* per caller: the call changed positions or the ledger
    applied,          \* history: trades applied to positions, in lock order
    saved_trades,     \* DataManager: order ids of the persisted trades
    trades_started,   \* number of execute_trade calls begun
    lpc,              \* per op task: where its start()/stop() call is
    lcall,            \* per op task: locals of the call and of the one before
    lresult,          \* per op task: what the last call returned
    lifecycle_started,\* number of start()/stop() calls begun
    monitors_alive,   \* monitor_orders tasks spawned and not yet exited
    monitors_spawned, \* monitor_orders tasks ever spawned
    system_notes,     \* send_system_notification calls made, per title
    now,              \* Utc::now(): the wall clock, in whole seconds
    rate_limiter,     \* DiscordNotifier.rate_limiter: the RateLimiter
    npc,              \* per sending task: where its send_message call is
    nresult,          \* per sending task: what the last send_message returned
    bot_is_running,   \* trading/mod.rs TradingEngine.is_running
    bot_log           \* history: the calls made on that engine, in order

vars == <<live_trading, is_running, positions, positions_lock, active_orders,
          next_order_id, pc, call, result, touched, applied, saved_trades,
          trades_started, lpc, lcall, lresult, lifecycle_started,
          monitors_alive, monitors_spawned, system_notes,
          now, rate_limiter, npc, nresult, bot_is_running, bot_log>>

notifierVars == <<now, rate_limiter, npc, nresult>>
botVars == <<bot_is_running, bot_log>>
engineVars == <<live_trading, is_running, positions, positions_lock,
                active_orders, next_order_id, applied, saved_trades,
                monitors_alive, monitors_spawned, system_notes,
                notifierVars, botVars>>
callerVars == <<pc, call, result, touched, trades_started>>
opVars == <<lpc, lcall, lresult, lifecycle_started>>

\* ---------------------------------------------------------------- Decimal
Min(a, b) == IF a <= b THEN a ELSE b
\* Decimal `/` of a non-negative amount by a positive quantity, rounded to the
\* nearest representable value.
DecDiv(a, q) == (2 * a + q) \div (2 * q)

\* ---------------------------------------------------------------- Position
\* or_insert_with: the zeroed position created on the first trade of a symbol.
NewPosition(symbol) ==
    [symbol |-> symbol, side |-> "Flat", quantity |-> 0, average_price |-> 0,
     unrealized_pnl |-> 0, realized_pnl |-> 0]

\* ClosePosition with a slip: the position is not flattened when it is
\* closed out.
ClosePositionKeepsSide(position, trade, diff) ==
    LET close_quantity == Min(position.quantity, trade.quantity)
        pnl == diff * close_quantity
    IN  [position EXCEPT
            !.realized_pnl = @ + pnl,
            !.quantity = @ - close_quantity]

\* ClosePosition with a slip: what stays open is re-priced at the trade's
\* price.
ClosePositionReprices(position, trade, diff) ==
    LET close_quantity == Min(position.quantity, trade.quantity)
        pnl == diff * close_quantity
        quantity == position.quantity - close_quantity
    IN  [position EXCEPT
            !.realized_pnl = @ + pnl,
            !.quantity = quantity,
            !.side = IF quantity = 0 THEN "Flat" ELSE @,
            !.average_price = IF quantity = 0 THEN 0 ELSE trade.price]

\* ClosePosition with a slip: the excess of a trade larger than the position
\* opens a position on the other side at the trade's price.
ClosePositionFlips(position, trade, diff) ==
    LET close_quantity == Min(position.quantity, trade.quantity)
        pnl == diff * close_quantity
        quantity == position.quantity - close_quantity
        excess == trade.quantity - close_quantity
    IN  IF excess > 0
        THEN [position EXCEPT
                !.realized_pnl = @ + pnl,
                !.quantity = excess,
                !.side = IF @ = "Long" THEN "Short" ELSE "Long",
                !.average_price = trade.price]
        ELSE [position EXCEPT
                !.realized_pnl = @ + pnl,
                !.quantity = quantity,
                !.side = IF quantity = 0 THEN "Flat" ELSE @,
                !.average_price = IF quantity = 0 THEN 0 ELSE @]

\* ClosePosition with a slip: the P&L is booked with the wrong sign.
ClosePositionWrongSign(position, trade, diff) ==
    LET close_quantity == Min(position.quantity, trade.quantity)
        pnl == (0 - diff) * close_quantity
        quantity == position.quantity - close_quantity
    IN  [position EXCEPT
            !.realized_pnl = @ + pnl,
            !.quantity = quantity,
            !.side = IF quantity = 0 THEN "Flat" ELSE @,
            !.average_price = IF quantity = 0 THEN 0 ELSE @]

\* ClosePosition with a slip: the P&L is booked on the whole trade quantity,
\* not on the quantity closed.
ClosePositionPnlOnTradeQuantity(position, trade, diff) ==
    LET close_quantity == Min(position.quantity, trade.quantity)
        pnl == diff * trade.quantity
        quantity == position.quantity - close_quantity
    IN  [position EXCEPT
            !.realized_pnl = @ + pnl,
            !.quantity = quantity,
            !.side = IF quantity = 0 THEN "Flat" ELSE @,
            !.average_price = IF quantity = 0 THEN 0 ELSE @]

\* The closing arms: `diff` is (average_price - price) for a short being
\* bought back and (price - average_price) for a long being sold.
ClosePosition(position, trade, diff) ==
    LET close_quantity == Min(position.quantity, trade.quantity)
        pnl == diff * close_quantity
        quantity == position.quantity - close_quantity
    IN  [position EXCEPT
            !.realized_pnl = @ + pnl,
            !.quantity = quantity,
            !.side = IF quantity = 0 THEN "Flat" ELSE @,
            !.average_price = IF quantity = 0 THEN 0 ELSE @]

\* OpenPosition with a slip: the move of the average price is booked as P&L.
OpenPositionBooksPnl(position, trade, side) ==
    LET total_value == position.average_price * position.quantity
                       + trade.price * trade.quantity
        quantity == position.quantity + trade.quantity
    IN  [position EXCEPT
            !.quantity = quantity,
            !.average_price = DecDiv(total_value, quantity),
            !.realized_pnl = @ + (trade.price - position.average_price)
                                   * position.quantity,
            !.side = side]

\* OpenPosition with a slip: the average is not weighted by the quantities.
OpenPositionUnweighted(position, trade, side) ==
    [position EXCEPT
        !.quantity = position.quantity + trade.quantity,
        !.average_price = DecDiv(position.average_price + trade.price, 2),
        !.side = side]

\* OpenPosition with a slip: the average price is not recomputed.
OpenPositionKeepsAverage(position, trade, side) ==
    [position EXCEPT
        !.quantity = position.quantity + trade.quantity,
        !.side = side]

\* The opening arms: open or add to a position on `side`.
OpenPosition(position, trade, side) ==
    LET total_value == position.average_price * position.quantity
                       + trade.price * trade.quantity
        quantity == position.quantity + trade.quantity
    IN  [position EXCEPT
            !.quantity = quantity,
            !.average_price = DecDiv(total_value, quantity),
            !.side = side]

\* The match on trade.side in update_position.
ApplyTrade(position, trade) ==
    IF trade.side = "Buy"
    THEN IF position.side = "Short"
         THEN ClosePosition(position, trade, position.average_price - trade.price)
         ELSE OpenPosition(position, trade, "Long")
    ELSE IF position.side = "Long"
         THEN ClosePosition(position, trade, trade.price - position.average_price)
         ELSE OpenPosition(position, trade, "Short")

\* PositionsAfter with a slip: a position that comes back to quantity 0 is
\* taken out of the map.
PositionsAfterDropsFlat(ps, trade) ==
    LET position == IF trade.symbol \in DOMAIN ps
                    THEN ps[trade.symbol] ELSE NewPosition(trade.symbol)
        after == ApplyTrade(position, trade)
        kept == IF after.quantity = 0
                THEN DOMAIN ps \ {trade.symbol} ELSE DOMAIN ps \cup {trade.symbol}
    IN  [s \in kept |-> IF s = trade.symbol THEN after ELSE ps[s]]

\* PositionsAfter with a lost update: the trade is applied to a fresh
\* position, so what earlier trades did to the symbol is lost.
PositionsAfterStale(ps, trade) ==
    [s \in DOMAIN ps \cup {trade.symbol} |->
        IF s = trade.symbol THEN ApplyTrade(NewPosition(trade.symbol), trade)
        ELSE ps[s]]

\* PositionsAfter with the symbol not looked at: the trade is applied to
\* every position of the map.
PositionsAfterEverySymbol(ps, trade) ==
    [s \in DOMAIN ps \cup {trade.symbol} |->
        ApplyTrade(IF s \in DOMAIN ps THEN ps[s] ELSE NewPosition(s), trade)]

\* positions.entry(symbol).or_insert_with(..) followed by the match.
PositionsAfter(ps, trade) ==
    LET position == IF trade.symbol \in DOMAIN ps
                    THEN ps[trade.symbol] ELSE NewPosition(trade.symbol)
    IN  [s \in DOMAIN ps \cup {trade.symbol} |->
            IF s = trade.symbol THEN ApplyTrade(position, trade) ELSE ps[s]]

\* ------------------------------------------------------------ collaborators
\* DataManager::get_latest_price(symbol) -> Result<Option<Decimal>>: the feed
\* fails, has no price, or reports one.
GetLatestPriceResults ==
    {[ok |-> FALSE, price |-> None], [ok |-> TRUE, price |-> None]}
    \cup {[ok |-> TRUE, price |-> Some(p)] : p \in Prices}

\* DiscordNotifier::send_*_notification: Ok(()) when the message is sent or
\* dropped by the rate limiter, an error when the webhook request fails.
NotifyResults == {"Ok", "Err"}

\* DataManager::save_trade(&trade) -> Result<()>: the store may fail.
SaveTradeResults == {"Ok", "Err"}

\* BinanceApi::submit_order: the order comes back filled at its own price.
BinanceSubmitOrder(order) ==
    [order EXCEPT
        !.status = "Filled",
        !.filled_quantity = order.quantity,
        !.average_price = order.price]

\* ------------------------------------------------------------ execute_trade
NoCall ==
    [symbol |-> "", side |-> "", quantity |-> 0, order_type |-> "",
     price |-> None, risk |-> "none", order |-> None, trade |-> None,
     submitted |-> FALSE, save |-> "none",
     \* the price reads: what the feed returned to check_risk_limits and to
     \* simulate_order_execution, and check_risk_limits' current_price (a
     \* local, gone once submit_order runs)
     risk_feed |-> "none", risk_price |-> None, fill_feed |-> "none",
     \* what the engine held when check_risk_limits ran: some position, some
     \* order in the ledger (kept as long as current_price)
     risk_saw_positions |-> FALSE, risk_saw_orders |-> FALSE]

NoResult == [kind |-> "none", stage |-> "", error |-> "", order |-> None]
OkResult(order) == [kind |-> "Ok", stage |-> "", error |-> "", order |-> Some(order)]
\* An Err returned by `?` at the risk check, at submit_order, or at the order
\* notification (`stage`).
ErrResult(stage, error) == [kind |-> "Err", stage |-> stage, error |-> error, order |-> None]

\* Order { .. status: OrderStatus::New, filled_quantity: ZERO, average_price: None }
NewOrder(id, c) ==
    [id |-> id, symbol |-> c.symbol, side |-> c.side, order_type |-> c.order_type,
     quantity |-> c.quantity, price |-> c.price, status |-> "New",
     filled_quantity |-> 0, average_price |-> None]

\* ExecutedOrder with a slip: a Limit order is filled at its own price, not
\* at the price read.
ExecutedOrderAtOrderPrice(order, current_price) ==
    [order EXCEPT
        !.status = "Filled",
        !.filled_quantity = order.quantity,
        !.average_price = Some(UnwrapOr(order.price, current_price))]

\* The paper fill of simulate_order_execution.
ExecutedOrder(order, current_price) ==
    [order EXCEPT
        !.status = "Filled",
        !.filled_quantity = order.quantity,
        !.average_price = Some(current_price)]

\* Trade { order_id, symbol, side, quantity, price: current_price, fee, .. }
NewTrade(order, current_price) ==
    [order_id |-> order.id, symbol |-> order.symbol, side |-> order.side,
     quantity |-> order.quantity, price |-> current_price,
     fee |-> (current_price * order.quantity) \div 1000]

\* What a price read returned: Err(..), Ok(None) or Ok(Some(price)).
FeedKind(r) == IF ~r.ok THEN "Err" ELSE IF IsSome(r.price) THEN "Some" ELSE "None"

\* current_price of check_risk_limits: the price read, or the fallback.
RiskPrice(r) ==
    IF r.ok THEN Some(UnwrapOr(r.price, DefaultPrice * DecScale)) ELSE None

\* CheckRiskLimitsResult with a slip: a feed without a price is an error.
CheckRiskLimitsResultNoFallback(r, quantity) ==
    IF ~r.ok \/ ~IsSome(r.price) THEN "PriceError"
    ELSE LET current_price == Unwrap(r.price)
             position_value == current_price * quantity
         IN  IF position_value > max_position_size * DecScale
             THEN "RiskLimitExceeded" ELSE "Ok"

\* CheckRiskLimitsResult with a slip: a notional equal to the limit is
\* rejected too.
CheckRiskLimitsResultInclusive(r, quantity) ==
    IF ~r.ok THEN "PriceError"
    ELSE LET current_price == UnwrapOr(r.price, DefaultPrice * DecScale)
             position_value == current_price * quantity
         IN  IF position_value >= max_position_size * DecScale
             THEN "RiskLimitExceeded" ELSE "Ok"

\* check_risk_limits after the price read: Ok or the error it returns.
CheckRiskLimitsResult(r, quantity) ==
    IF ~r.ok THEN "PriceError"
    ELSE LET current_price == UnwrapOr(r.price, DefaultPrice * DecScale)
             position_value == current_price * quantity
         IN  IF position_value > max_position_size * DecScale
             THEN "RiskLimitExceeded" ELSE "Ok"

\* The bookkeeping every step of a call shares: has this call changed the
\* position map or the ledger.
Touch(c) ==
    touched' = [touched EXCEPT ![c] =
                   @ \/ positions' # positions \/ active_orders' # active_orders]

Return(c, res) ==
    /\ pc' = [pc EXCEPT ![c] = "done"]
    /\ result' = [result EXCEPT ![c] = res]

\* A task calls execute_trade(symbol, side, quantity, order_type, price, ..).
ExecuteTrade(c) ==
    /\ pc[c] \in {"idle", "done"}
    /\ trades_started + lifecycle_started < MaxCalls
    /\ \E r \in Requests :
          call' = [call EXCEPT ![c] =
                      [NoCall EXCEPT !.symbol = r[1], !.side = r[2],
                                     !.quantity = r[3], !.order_type = r[4],
                                     !.price = r[5]]]
    /\ pc' = [pc EXCEPT ![c] = "check_risk"]
    /\ result' = [result EXCEPT ![c] = NoResult]
    /\ touched' = [touched EXCEPT ![c] = FALSE]
    /\ trades_started' = trades_started + 1
    /\ UNCHANGED <<engineVars, opVars>>

\* CheckRiskLimits with the `?` missing: a failed check does not end the call.
CheckRiskLimitsIgnored(c) ==
    /\ pc[c] = "check_risk"
    /\ \E r \in GetLatestPriceResults :
          LET verdict == CheckRiskLimitsResult(r, call[c].quantity) IN
          call' = [call EXCEPT ![c].risk = IF verdict = "Ok" THEN "Ok" ELSE "Err",
                               ![c].risk_feed = FeedKind(r),
                               ![c].risk_price = RiskPrice(r),
                                       ![c].risk_saw_positions = DOMAIN positions # {},
                                       ![c].risk_saw_orders = DOMAIN active_orders # {},
                               ![c].order = Some(NewOrder(next_order_id, call[c]))]
    /\ next_order_id' = next_order_id + 1
    /\ pc' = [pc EXCEPT ![c] = "submit"]
    /\ UNCHANGED <<notifierVars, botVars, live_trading, is_running, positions, positions_lock,
                   active_orders, applied, saved_trades, monitors_alive,
                   monitors_spawned, system_notes, result, touched,
                   trades_started, opVars>>

\* CheckRiskLimits with a running-exposure check: the quantity already held
\* in the symbol counts towards the limit.
CheckRiskLimitsRunningExposure(c) ==
    /\ pc[c] = "check_risk"
    /\ \E r \in GetLatestPriceResults :
          LET held == IF call[c].symbol \in DOMAIN positions
                      THEN positions[call[c].symbol].quantity ELSE 0
              verdict == CheckRiskLimitsResult(r, call[c].quantity + held)
          IN
          IF verdict # "Ok"
          THEN /\ call' = [call EXCEPT ![c].risk = "Err",
                                       ![c].risk_feed = FeedKind(r),
                                       ![c].risk_price = RiskPrice(r),
                                       ![c].risk_saw_positions = DOMAIN positions # {},
                                       ![c].risk_saw_orders = DOMAIN active_orders # {}]
               /\ Return(c, ErrResult("risk", verdict))
               /\ UNCHANGED next_order_id
          ELSE /\ call' = [call EXCEPT ![c].risk = "Ok",
                                       ![c].risk_feed = FeedKind(r),
                                       ![c].risk_price = RiskPrice(r),
                                       ![c].risk_saw_positions = DOMAIN positions # {},
                                       ![c].risk_saw_orders = DOMAIN active_orders # {},
                                       ![c].order = Some(NewOrder(next_order_id, call[c]))]
               /\ next_order_id' = next_order_id + 1
               /\ pc' = [pc EXCEPT ![c] = "submit"]
               /\ UNCHANGED result
    /\ UNCHANGED <<notifierVars, botVars, live_trading, is_running, positions, positions_lock,
                   active_orders, applied, saved_trades, monitors_alive,
                   monitors_spawned, system_notes, touched, trades_started, opVars>>

\* CheckRiskLimits with a slip: the positions write guard is taken before
\* the order is built and is still held when submit_order runs.
CheckRiskLimitsHoldsGuard(c) ==
    /\ pc[c] = "check_risk"
    /\ positions_lock = None
    /\ \E r \in GetLatestPriceResults :
          LET verdict == CheckRiskLimitsResult(r, call[c].quantity) IN
          IF verdict # "Ok"
          THEN /\ call' = [call EXCEPT ![c].risk = "Err",
                                       ![c].risk_feed = FeedKind(r),
                                       ![c].risk_price = RiskPrice(r),
                                       ![c].risk_saw_positions = DOMAIN positions # {},
                                       ![c].risk_saw_orders = DOMAIN active_orders # {}]
               /\ Return(c, ErrResult("risk", verdict))
               /\ UNCHANGED <<next_order_id, positions_lock>>
          ELSE /\ call' = [call EXCEPT ![c].risk = "Ok",
                                       ![c].risk_feed = FeedKind(r),
                                       ![c].risk_price = RiskPrice(r),
                                       ![c].risk_saw_positions = DOMAIN positions # {},
                                       ![c].risk_saw_orders = DOMAIN active_orders # {},
                                       ![c].order = Some(NewOrder(next_order_id, call[c]))]
               /\ next_order_id' = next_order_id + 1
               /\ positions_lock' = Some(c)
               /\ pc' = [pc EXCEPT ![c] = "submit"]
               /\ UNCHANGED result
    /\ UNCHANGED <<notifierVars, botVars, live_trading, is_running, positions,
                   active_orders, applied, saved_trades, monitors_alive,
                   monitors_spawned, system_notes, touched, trades_started, opVars>>

\* self.check_risk_limits(..).await? and, when it passes, the Order literal.
CheckRiskLimits(c) ==
    /\ pc[c] = "check_risk"
    /\ \E r \in GetLatestPriceResults :
          LET verdict == CheckRiskLimitsResult(r, call[c].quantity) IN
          IF verdict # "Ok"
          THEN /\ call' = [call EXCEPT ![c].risk = "Err",
                                       ![c].risk_feed = FeedKind(r),
                                       ![c].risk_price = RiskPrice(r),
                                       ![c].risk_saw_positions = DOMAIN positions # {},
                                       ![c].risk_saw_orders = DOMAIN active_orders # {}]
               /\ Return(c, ErrResult("risk", verdict))
               /\ UNCHANGED next_order_id
          ELSE /\ call' = [call EXCEPT ![c].risk = "Ok",
                                       ![c].risk_feed = FeedKind(r),
                                       ![c].risk_price = RiskPrice(r),
                                       ![c].risk_saw_positions = DOMAIN positions # {},
                                       ![c].risk_saw_orders = DOMAIN active_orders # {},
                                       ![c].order = Some(NewOrder(next_order_id, call[c]))]
               /\ next_order_id' = next_order_id + 1
               /\ pc' = [pc EXCEPT ![c] = "submit"]
               /\ UNCHANGED result
    /\ UNCHANGED <<notifierVars, botVars, live_trading, is_running, positions, positions_lock,
                   active_orders, applied, saved_trades, monitors_alive,
                   monitors_spawned, system_notes, touched, trades_started, opVars>>

\* submit_order, live branch: self.binance_api.submit_order(order).await
SubmitOrderLive(c) ==
    /\ pc[c] = "submit"
    /\ live_trading
    /\ call' = [call EXCEPT ![c].submitted = TRUE,
                            ![c].risk_price = None,
                            ![c].risk_saw_positions = FALSE,
                            ![c].risk_saw_orders = FALSE,
                            ![c].order = Some(BinanceSubmitOrder(Unwrap(call[c].order)))]
    /\ pc' = [pc EXCEPT ![c] = "track"]
    /\ UNCHANGED <<engineVars, result, touched, trades_started, opVars>>

\* SimulateOrderExecution with the ledger written first: the filled order is
\* inserted into active_orders at the fill, before update_position.
SimulateOrderExecutionTracksFirst(c) ==
    /\ pc[c] = "submit"
    /\ ~live_trading
    /\ \E r \in GetLatestPriceResults :
          IF ~r.ok
          THEN /\ call' = [call EXCEPT ![c].submitted = TRUE,
                                       ![c].risk_price = None,
                                       ![c].risk_saw_positions = FALSE,
                                       ![c].risk_saw_orders = FALSE,
                                       ![c].fill_feed = FeedKind(r)]
               /\ Return(c, ErrResult("submit", "PriceError"))
               /\ UNCHANGED active_orders
          ELSE LET current_price == UnwrapOr(r.price, DefaultPrice * DecScale)
                   order == Unwrap(call[c].order)
               IN  /\ call' = [call EXCEPT
                                  ![c].submitted = TRUE,
                                  ![c].risk_price = None,
                                  ![c].risk_saw_positions = FALSE,
                                  ![c].risk_saw_orders = FALSE,
                                  ![c].fill_feed = FeedKind(r),
                                  ![c].order = Some(ExecutedOrder(order, current_price)),
                                  ![c].trade = Some(NewTrade(order, current_price))]
                   /\ active_orders' =
                         [id \in DOMAIN active_orders \cup {order.id} |->
                             IF id = order.id THEN ExecutedOrder(order, current_price)
                             ELSE active_orders[id]]
                   /\ pc' = [pc EXCEPT ![c] = "update_position"]
                   /\ UNCHANGED result
    /\ UNCHANGED <<notifierVars, botVars, live_trading, is_running, positions, positions_lock,
                   next_order_id, applied, saved_trades, monitors_alive,
                   monitors_spawned, system_notes, touched, trades_started, opVars>>

\* submit_order, paper branch: simulate_order_execution up to the price read.
SimulateOrderExecution(c) ==
    /\ pc[c] = "submit"
    /\ ~live_trading
    /\ \E r \in GetLatestPriceResults :
          IF ~r.ok
          THEN /\ call' = [call EXCEPT ![c].submitted = TRUE,
                                       ![c].risk_price = None,
                                       ![c].risk_saw_positions = FALSE,
                                       ![c].risk_saw_orders = FALSE,
                                       ![c].fill_feed = FeedKind(r)]
               /\ Return(c, ErrResult("submit", "PriceError"))
          ELSE LET current_price == UnwrapOr(r.price, DefaultPrice * DecScale)
                   order == Unwrap(call[c].order)
               IN  /\ call' = [call EXCEPT
                                  ![c].submitted = TRUE,
                                  ![c].risk_price = None,
                                  ![c].risk_saw_positions = FALSE,
                                  ![c].risk_saw_orders = FALSE,
                                  ![c].fill_feed = FeedKind(r),
                                  ![c].order = Some(ExecutedOrder(order, current_price)),
                                  ![c].trade = Some(NewTrade(order, current_price))]
                   /\ pc' = [pc EXCEPT ![c] = "update_position"]
                   /\ UNCHANGED result
    /\ UNCHANGED <<engineVars, touched, trades_started, opVars>>

\* The history entry of one application: the trade, and the position it was
\* applied to as it was before.
AppliedEntry(trade, before) ==
    [order_id |-> trade.order_id, symbol |-> trade.symbol,
     side |-> trade.side, quantity |-> trade.quantity,
     price |-> trade.price, side_before |-> before.side,
     quantity_before |-> before.quantity,
     average_price_before |-> before.average_price,
     realized_pnl_before |-> before.realized_pnl]

\* update_position up to its notification: the write guard is taken, the
\* position is created if absent and the trade applied; the guard stays held.
UpdatePosition(c) ==
    /\ pc[c] = "update_position"
    /\ positions_lock = None
    /\ LET trade == Unwrap(call[c].trade)
           before == IF trade.symbol \in DOMAIN positions
                     THEN positions[trade.symbol] ELSE NewPosition(trade.symbol)
       IN  /\ positions' = PositionsAfter(positions, trade)
           /\ applied' = Append(applied, AppliedEntry(trade, before))
    /\ positions_lock' = Some(c)
    /\ pc' = [pc EXCEPT ![c] = "position_notify"]
    /\ UNCHANGED <<notifierVars, botVars, live_trading, is_running, active_orders, next_order_id,
                   saved_trades, monitors_alive, monitors_spawned, system_notes,
                   call, result, trades_started, opVars>>
    /\ Touch(c)

\* send_position_notification(position).await? ; the guard drops on return.
PositionNotify(c) ==
    /\ pc[c] = "position_notify"
    /\ positions_lock = Some(c)
    /\ positions_lock' = None
    /\ \E io \in NotifyResults :
          IF io = "Ok"
          THEN pc' = [pc EXCEPT ![c] = "save_trade"] /\ UNCHANGED result
          ELSE Return(c, ErrResult("submit", "NotificationError"))
    /\ UNCHANGED <<notifierVars, botVars, live_trading, is_running, positions, active_orders,
                   next_order_id, applied, saved_trades, monitors_alive,
                   monitors_spawned, system_notes, call, touched,
                   trades_started, opVars>>

\* self.data_manager.save_trade(&trade).await?
SaveTrade(c) ==
    /\ pc[c] = "save_trade"
    /\ \E io \in SaveTradeResults :
          IF io = "Ok"
          THEN /\ saved_trades' = saved_trades \cup {Unwrap(call[c].trade).order_id}
               /\ call' = [call EXCEPT ![c].save = "Ok"]
               /\ pc' = [pc EXCEPT ![c] = "trade_notify"]
               /\ UNCHANGED result
          ELSE /\ call' = [call EXCEPT ![c].save = "Err"]
               /\ Return(c, ErrResult("submit", "PersistenceError"))
               /\ UNCHANGED saved_trades
    /\ UNCHANGED <<notifierVars, botVars, live_trading, is_running, positions, positions_lock,
                   active_orders, next_order_id, applied, monitors_alive,
                   monitors_spawned, system_notes, touched, trades_started, opVars>>

\* self.discord_notifier.send_trade_notification(&trade).await? ; Ok(executed_order)
TradeNotify(c) ==
    /\ pc[c] = "trade_notify"
    /\ \E io \in NotifyResults :
          IF io = "Ok"
          THEN pc' = [pc EXCEPT ![c] = "track"] /\ UNCHANGED result
          ELSE Return(c, ErrResult("submit", "NotificationError"))
    /\ UNCHANGED <<engineVars, call, touched, trades_started, opVars>>

\* orders.insert(submitted_order.id, submitted_order.clone())
TrackOrder(c) ==
    /\ pc[c] = "track"
    /\ LET order == Unwrap(call[c].order) IN
          active_orders' = [id \in DOMAIN active_orders \cup {order.id} |->
                               IF id = order.id THEN order ELSE active_orders[id]]
    /\ pc' = [pc EXCEPT ![c] = "order_notify"]
    /\ UNCHANGED <<notifierVars, botVars, live_trading, is_running, positions, positions_lock,
                   next_order_id, applied, saved_trades, monitors_alive,
                   monitors_spawned, system_notes, call, result,
                   trades_started, opVars>>
    /\ Touch(c)

\* send_order_notification(&submitted_order).await? ; Ok(submitted_order)
OrderNotify(c) ==
    /\ pc[c] = "order_notify"
    /\ \E io \in NotifyResults :
          IF io = "Ok"
          THEN Return(c, OkResult(Unwrap(call[c].order)))
          ELSE Return(c, ErrResult("notify", "NotificationError"))
    /\ UNCHANGED <<engineVars, call, touched, trades_started, opVars>>

\* ------------------------------------------------------------- start / stop
NoLifecycleCall ==
    [seq |-> 0, kind |-> "none", was_running |-> FALSE, snapshot |-> {},
     cancelled |-> {}, notified |-> FALSE,
     prev_kind |-> "none", prev_cancelled |-> {},
     \* when the call began: was no execute_trade in flight, and how many
     \* had been begun
     quiet |-> TRUE, trades_before |-> 0]

\* May another start() or stop() begin: the budget MaxCalls holds once a
\* trade has been begun, MaxLifecycleCalls while none has.
LifecycleBudget ==
    IF trades_started = 0
    THEN lifecycle_started < MaxLifecycleCalls
    ELSE trades_started + lifecycle_started < MaxCalls

\* The locals of a call that begins now; the finished call becomes `prev`.
BeginLifecycleCall(o, kind) ==
    [NoLifecycleCall EXCEPT
        !.seq = trades_started + lifecycle_started + 1,
        !.kind = kind,
        !.was_running = is_running,
        !.prev_kind = lcall[o].kind,
        !.prev_cancelled = lcall[o].cancelled,
        !.quiet = \A c \in Callers : pc[c] \in {"idle", "done"},
        !.trades_before = trades_started]

LifecycleReturn(o, res) ==
    /\ lpc' = [lpc EXCEPT ![o] = "done"]
    /\ lresult' = [lresult EXCEPT ![o] = res]

\* Start with the `if *running` guard missing.
StartUnguarded(o) ==
    /\ lpc[o] \in {"idle", "done"}
    /\ LifecycleBudget
    /\ lifecycle_started' = lifecycle_started + 1
    /\ lcall' = [lcall EXCEPT ![o] = BeginLifecycleCall(o, "start")]
    /\ is_running' = TRUE
    /\ lpc' = [lpc EXCEPT ![o] = "spawn_monitor"]
    /\ lresult' = [lresult EXCEPT ![o] = "none"]
    /\ UNCHANGED <<notifierVars, botVars, live_trading, positions, positions_lock, active_orders,
                   next_order_id, applied, saved_trades, monitors_alive,
                   monitors_spawned, system_notes, callerVars>>

\* start(): the block holding the is_running write guard.
Start(o) ==
    /\ lpc[o] \in {"idle", "done"}
    /\ LifecycleBudget
    /\ lifecycle_started' = lifecycle_started + 1
    /\ lcall' = [lcall EXCEPT ![o] = BeginLifecycleCall(o, "start")]
    /\ IF is_running
       THEN /\ LifecycleReturn(o, "AlreadyRunning")
            /\ UNCHANGED is_running
       ELSE /\ is_running' = TRUE
            /\ lpc' = [lpc EXCEPT ![o] = "spawn_monitor"]
            /\ lresult' = [lresult EXCEPT ![o] = "none"]
    /\ UNCHANGED <<notifierVars, botVars, live_trading, positions, positions_lock, active_orders,
                   next_order_id, applied, saved_trades, monitors_alive,
                   monitors_spawned, system_notes, callerVars>>

\* load_positions (nothing to load) and tokio::spawn(engine.monitor_orders()).
SpawnMonitor(o) ==
    /\ lpc[o] = "spawn_monitor"
    /\ monitors_alive' = monitors_alive + 1
    /\ monitors_spawned' = monitors_spawned + 1
    /\ lpc' = [lpc EXCEPT ![o] = "start_notify"]
    /\ UNCHANGED <<notifierVars, botVars, live_trading, is_running, positions, positions_lock,
                   active_orders, next_order_id, applied, saved_trades,
                   system_notes, callerVars, lcall, lresult, lifecycle_started>>

\* StartNotify with the start undone on a failed notification: the flag is
\* cleared again before the error is returned.
StartNotifyRollsBack(o) ==
    /\ lpc[o] = "start_notify"
    /\ system_notes' = [system_notes EXCEPT !.start = @ + 1]
    /\ lcall' = [lcall EXCEPT ![o].notified = TRUE]
    /\ \E io \in NotifyResults :
          /\ LifecycleReturn(o, IF io = "Ok" THEN "Ok" ELSE "NotificationError")
          /\ is_running' = IF io = "Ok" THEN is_running ELSE FALSE
    /\ UNCHANGED <<notifierVars, botVars, live_trading, positions, positions_lock,
                   active_orders, next_order_id, applied, saved_trades,
                   monitors_alive, monitors_spawned, callerVars,
                   lifecycle_started>>

\* send_system_notification("交易引擎啟動", ..).await? ; Ok(())
StartNotify(o) ==
    /\ lpc[o] = "start_notify"
    /\ system_notes' = [system_notes EXCEPT !.start = @ + 1]
    /\ lcall' = [lcall EXCEPT ![o].notified = TRUE]
    /\ \E io \in NotifyResults :
          LifecycleReturn(o, IF io = "Ok" THEN "Ok" ELSE "NotificationError")
    /\ UNCHANGED <<notifierVars, botVars, live_trading, is_running, positions, positions_lock,
                   active_orders, next_order_id, applied, saved_trades,
                   monitors_alive, monitors_spawned, callerVars,
                   lifecycle_started>>

\* stop(): the block holding the is_running write guard.
Stop(o) ==
    /\ lpc[o] \in {"idle", "done"}
    /\ LifecycleBudget
    /\ lifecycle_started' = lifecycle_started + 1
    /\ lcall' = [lcall EXCEPT ![o] = BeginLifecycleCall(o, "stop")]
    /\ is_running' = FALSE
    /\ lpc' = [lpc EXCEPT ![o] = "cancel_all_orders"]
    /\ lresult' = [lresult EXCEPT ![o] = "none"]
    /\ UNCHANGED <<notifierVars, botVars, live_trading, positions, positions_lock, active_orders,
                   next_order_id, applied, saved_trades, monitors_alive,
                   monitors_spawned, system_notes, callerVars>>

\* cancel_all_orders: the snapshot active_orders.values().cloned().collect().
CancelAllOrders(o) ==
    /\ lpc[o] = "cancel_all_orders"
    /\ lcall' = [lcall EXCEPT ![o].snapshot = DOMAIN active_orders]
    /\ lpc' = [lpc EXCEPT ![o] =
                  IF DOMAIN active_orders = {} THEN "stop_notify" ELSE "cancel_order"]
    /\ UNCHANGED <<engineVars, callerVars, lresult, lifecycle_started>>

\* CancelOrder with the orders.remove missing.
CancelOrderKeeps(o) ==
    /\ lpc[o] = "cancel_order"
    /\ \E id \in lcall[o].snapshot :
          /\ lcall' = [lcall EXCEPT ![o].snapshot = @ \ {id},
                                    ![o].cancelled = @ \cup {id}]
          /\ lpc' = [lpc EXCEPT ![o] =
                        IF lcall[o].snapshot = {id} THEN "stop_notify" ELSE "cancel_order"]
    /\ UNCHANGED <<notifierVars, botVars, live_trading, is_running, positions, positions_lock,
                   active_orders, next_order_id, applied, saved_trades,
                   monitors_alive, monitors_spawned, system_notes, callerVars,
                   lresult, lifecycle_started>>

\* One turn of `for order in orders`: cancel_order removes the order from the
\* ledger (the map iterates in no particular order).
CancelOrder(o) ==
    /\ lpc[o] = "cancel_order"
    /\ \E id \in lcall[o].snapshot :
          /\ active_orders' = [i \in DOMAIN active_orders \ {id} |-> active_orders[i]]
          /\ lcall' = [lcall EXCEPT ![o].snapshot = @ \ {id},
                                    ![o].cancelled = @ \cup {id}]
          /\ lpc' = [lpc EXCEPT ![o] =
                        IF lcall[o].snapshot = {id} THEN "stop_notify" ELSE "cancel_order"]
    /\ UNCHANGED <<notifierVars, botVars, live_trading, is_running, positions, positions_lock,
                   next_order_id, applied, saved_trades, monitors_alive,
                   monitors_spawned, system_notes, callerVars, lresult,
                   lifecycle_started>>

\* send_system_notification("交易引擎停止", ..).await? ; Ok(())
StopNotify(o) ==
    /\ lpc[o] = "stop_notify"
    /\ system_notes' = [system_notes EXCEPT !.stop = @ + 1]
    /\ lcall' = [lcall EXCEPT ![o].notified = TRUE]
    /\ \E io \in NotifyResults :
          LifecycleReturn(o, IF io = "Ok" THEN "Ok" ELSE "NotificationError")
    /\ UNCHANGED <<notifierVars, botVars, live_trading, is_running, positions, positions_lock,
                   active_orders, next_order_id, applied, saved_trades,
                   monitors_alive, monitors_spawned, callerVars,
                   lifecycle_started>>

\* ------------------------------------------------------------------ monitor
\* MonitorTick with order status handling that drops the orders it finds
\* in a terminal state from the ledger.
MonitorTickPrunes ==
    /\ monitors_alive > 0
    /\ monitors_alive' = IF is_running THEN monitors_alive ELSE monitors_alive - 1
    /\ active_orders' =
          IF is_running
          THEN [id \in {i \in DOMAIN active_orders :
                           active_orders[i].status # "Filled"} |-> active_orders[id]]
          ELSE active_orders
    /\ UNCHANGED <<notifierVars, botVars, live_trading, is_running, positions, positions_lock,
                   next_order_id, applied, saved_trades,
                   monitors_spawned, system_notes, callerVars, opVars>>

\* MonitorTick with the `if !*running { break; }` missing.
MonitorTickNeverExits ==
    /\ monitors_alive > 0
    /\ monitors_alive' = monitors_alive
    /\ UNCHANGED <<notifierVars, botVars, live_trading, is_running, positions, positions_lock,
                   active_orders, next_order_id, applied, saved_trades,
                   monitors_spawned, system_notes, callerVars, opVars>>

\* One turn of the loop of monitor_orders in some spawned task: it leaves the
\* loop when the flag is false; otherwise it snapshots the active orders and
\* calls check_order_status on each, which changes nothing.
MonitorTick ==
    /\ monitors_alive > 0
    /\ monitors_alive' = IF is_running THEN monitors_alive ELSE monitors_alive - 1
    /\ UNCHANGED <<notifierVars, botVars, live_trading, is_running, positions, positions_lock,
                   active_orders, next_order_id, applied, saved_trades,
                   monitors_spawned, system_notes, callerVars, opVars>>

\* ------------------------------------------------------------------ readers
\* get_positions(): a read guard on positions, which waits while a writer
\* holds the map, and a clone of the map.
GetPositions ==
    /\ positions_lock = None
    /\ UNCHANGED vars

\* get_active_orders(): a read guard on active_orders (no writer holds it
\* across a suspension point) and a clone of the ledger.
GetActiveOrders == UNCHANGED vars

\* health_check(): a read guard on is_running and Ok(*running).
HealthCheckResult == [ok |-> TRUE, value |-> is_running]

HealthCheck == UNCHANGED vars

\* ----------------------------------------------------------------- notifier
\* RateLimiter { last_message_time: Utc::now(), message_count: 0,
\*               max_messages_per_minute: 30 }
NewRateLimiter(t) ==
    [last_message_time |-> t, message_count |-> 0,
     max_messages_per_minute |-> max_messages_per_minute]

\* `x as u64` of an i64.
AsU64(x) == x % U64Modulus

\* check_rate_limit with the lock held and the clock read as t: the limiter
\* it leaves and the bool it returns.
CheckRateLimit(limiter, t) ==
    LET reset == AsU64(t - limiter.last_message_time) >= WindowSeconds
        current == IF reset
                   THEN [limiter EXCEPT !.message_count = 0,
                                        !.last_message_time = t]
                   ELSE limiter
    IN  IF current.message_count >= current.max_messages_per_minute
        THEN [limiter |-> current, allowed |-> FALSE]
        ELSE [limiter |-> [current EXCEPT !.message_count = @ + 1],
              allowed |-> TRUE]

\* What send_message returned: Ok or Err, and whether the limiter refused
\* the message.
NoSendResult == [kind |-> "none", refused |-> FALSE]

\* send_message up to the webhook request: check_rate_limit, and the early
\* return Ok(()) when it refuses.
SendMessage(n) ==
    /\ npc[n] = "idle"
    /\ LET checked == CheckRateLimit(rate_limiter, now) IN
          /\ rate_limiter' = checked.limiter
          /\ IF checked.allowed
             THEN /\ npc' = [npc EXCEPT ![n] = "post"]
                  /\ nresult' = [nresult EXCEPT ![n] = NoSendResult]
             ELSE /\ nresult' = [nresult EXCEPT ![n] =
                                    [kind |-> "Ok", refused |-> TRUE]]
                  /\ UNCHANGED npc
    /\ UNCHANGED <<live_trading, is_running, positions, positions_lock,
                   active_orders, next_order_id, applied, saved_trades,
                   monitors_alive, monitors_spawned, system_notes,
                   callerVars, opVars, now, botVars>>

\* self.client.post(..).send().await and the status test.
PostMessage(n) ==
    /\ npc[n] = "post"
    /\ npc' = [npc EXCEPT ![n] = "idle"]
    /\ \E io \in NotifyResults :
          nresult' = [nresult EXCEPT ![n] = [kind |-> io, refused |-> FALSE]]
    /\ UNCHANGED <<live_trading, is_running, positions, positions_lock,
                   active_orders, next_order_id, applied, saved_trades,
                   monitors_alive, monitors_spawned, system_notes,
                   callerVars, opVars, now, rate_limiter, botVars>>

\* The wall clock between two readings: Utc::now() follows the system time,
\* which runs forward and can be set, forward or back.
ClockMoves ==
    /\ \E t \in ClockTimes \ {now} : now' = t
    /\ UNCHANGED <<live_trading, is_running, positions, positions_lock,
                   active_orders, next_order_id, applied, saved_trades,
                   monitors_alive, monitors_spawned, system_notes,
                   callerVars, opVars, rate_limiter, npc, nresult, botVars>>

\* -------------------------------------------- the engine of trading/mod.rs
\* One call made on the engine, as the history keeps it.
BotCall(op, before, kind, value, after) ==
    [op |-> op, before |-> before, kind |-> kind, value |-> value,
     after |-> after]

\* BotEngineStart with the `if *running` test missing.
BotEngineStartUnguarded ==
    /\ Len(bot_log) < MaxBotCalls
    /\ bot_is_running' = TRUE
    /\ bot_log' = Append(bot_log, BotCall("start", bot_is_running, "Ok", "", TRUE))
    /\ UNCHANGED <<live_trading, is_running, positions, positions_lock,
                   active_orders, next_order_id, applied, saved_trades,
                   monitors_alive, monitors_spawned, system_notes,
                   callerVars, opVars, notifierVars>>

\* TradingEngine::start of trading/mod.rs, which TradingBot::start calls and
\* whose result it returns.
BotEngineStart ==
    /\ Len(bot_log) < MaxBotCalls
    /\ IF bot_is_running
       THEN /\ UNCHANGED bot_is_running
            /\ bot_log' = Append(bot_log,
                              BotCall("start", bot_is_running, "Err", "", bot_is_running))
       ELSE /\ bot_is_running' = TRUE
            /\ bot_log' = Append(bot_log,
                              BotCall("start", bot_is_running, "Ok", "", TRUE))
    /\ UNCHANGED <<live_trading, is_running, positions, positions_lock,
                   active_orders, next_order_id, applied, saved_trades,
                   monitors_alive, monitors_spawned, system_notes,
                   callerVars, opVars, notifierVars>>

\* TradingEngine::stop of trading/mod.rs, which TradingBot::stop calls.
BotEngineStop ==
    /\ Len(bot_log) < MaxBotCalls
    /\ IF ~bot_is_running
       THEN /\ UNCHANGED bot_is_running
            /\ bot_log' = Append(bot_log,
                              BotCall("stop", bot_is_running, "Ok", "", bot_is_running))
       ELSE /\ bot_is_running' = FALSE
            /\ bot_log' = Append(bot_log,
                              BotCall("stop", bot_is_running, "Ok", "", FALSE))
    /\ UNCHANGED <<live_trading, is_running, positions, positions_lock,
                   active_orders, next_order_id, applied, saved_trades,
                   monitors_alive, monitors_spawned, system_notes,
                   callerVars, opVars, notifierVars>>

\* TradingEngine::get_status of trading/mod.rs; "running" and "stopped" stand
\* for the two strings it returns, 運行中 and 已停止.
BotEngineGetStatus ==
    /\ Len(bot_log) < MaxBotCalls
    /\ bot_log' = Append(bot_log,
                      BotCall("get_status", bot_is_running, "Ok",
                              IF bot_is_running THEN "running" ELSE "stopped",
                              bot_is_running))
    /\ UNCHANGED <<live_trading, is_running, positions, positions_lock,
                   active_orders, next_order_id, applied, saved_trades,
                   monitors_alive, monitors_spawned, system_notes,
                   callerVars, opVars, notifierVars, bot_is_running>>

\* ------------------------------------------------------------ specification
\* TradingEngine::new, with either setting of config.trading.live_trading.
Init ==
    /\ live_trading \in BOOLEAN
    /\ is_running = FALSE
    /\ positions = <<>>
    /\ positions_lock = None
    /\ active_orders = <<>>
    /\ next_order_id = 1
    /\ pc = [c \in Callers |-> "idle"]
    /\ call = [c \in Callers |-> NoCall]
    /\ result = [c \in Callers |-> NoResult]
    /\ touched = [c \in Callers |-> FALSE]
    /\ applied = <<>>
    /\ saved_trades = {}
    /\ trades_started = 0
    /\ lpc = [o \in Ops |-> "idle"]
    /\ lcall = [o \in Ops |-> NoLifecycleCall]
    /\ lresult = [o \in Ops |-> "none"]
    /\ lifecycle_started = 0
    /\ monitors_alive = 0
    /\ monitors_spawned = 0
    /\ system_notes = [start |-> 0, stop |-> 0]
    /\ now = 0
    /\ rate_limiter = NewRateLimiter(now)
    /\ npc = [n \in Senders |-> "idle"]
    /\ nresult = [n \in Senders |-> NoSendResult]
    /\ bot_is_running = FALSE
    /\ bot_log = <<>>

Next ==
    \/ \E c \in Callers : ExecuteTrade(c)
    \/ \E c \in Callers : CheckRiskLimits(c)
    \/ \E c \in Callers : SubmitOrderLive(c)
    \/ \E c \in Callers : SimulateOrderExecution(c)
    \/ \E c \in Callers : UpdatePosition(c)
    \/ \E c \in Callers : PositionNotify(c)
    \/ \E c \in Callers : SaveTrade(c)
    \/ \E c \in Callers : TradeNotify(c)
    \/ \E c \in Callers : TrackOrder(c)
    \/ \E c \in Callers : OrderNotify(c)
    \/ \E o \in Ops : Start(o)
    \/ \E o \in Ops : SpawnMonitor(o)
    \/ \E o \in Ops : StartNotify(o)
    \/ \E o \in Ops : Stop(o)
    \/ \E o \in Ops : CancelAllOrders(o)
    \/ \E o \in Ops : CancelOrder(o)
    \/ \E o \in Ops : StopNotify(o)
    \/ MonitorTick
    \/ GetPositions
    \/ GetActiveOrders
    \/ HealthCheck

Spec == Init /\ [][Next]_vars

\* The engine on a runtime that keeps its timers going: a monitor task
\* sleeps in interval.tick() for 5 s at a time, so a monitor that would leave
\* its loop at the next tick does get that tick.
SpecFair == Spec /\ WF_vars(MonitorTick)

\* ----------------------------------------------- update_position by itself
\* The position book alone: trades are applied one after another, as
\* update_position applies them under the write guard, with nothing else of
\* the engine moving.  The trades are drawn from BookTrades; they are all on
\* one symbol, the position of a symbol being changed by its own trades only.
BookSymbols == {"BTCUSDT"}
BookPrices == {100 * DecScale, 200 * DecScale, 300 * DecScale}
BookQuantities == {1, 2}

BookTrades(order_id) ==
    {[order_id |-> order_id, symbol |-> s, side |-> d, quantity |-> q,
      price |-> p, fee |-> (p * q) \div 1000] :
        s \in BookSymbols, d \in {"Buy", "Sell"}, q \in BookQuantities, p \in BookPrices}

BookInit == Init /\ ~live_trading

\* One update_position(&trade) on the book.
BookApply ==
    /\ Len(applied) < MaxBookTrades
    /\ \E trade \in BookTrades(Len(applied) + 1) :
          LET before == IF trade.symbol \in DOMAIN positions
                        THEN positions[trade.symbol] ELSE NewPosition(trade.symbol)
          IN  /\ positions' = PositionsAfter(positions, trade)
              /\ applied' = Append(applied, AppliedEntry(trade, before))
    /\ UNCHANGED <<notifierVars, botVars, live_trading, is_running, positions_lock, active_orders,
                   next_order_id, saved_trades, monitors_alive,
                   monitors_spawned, system_notes, callerVars, opVars>>

SpecBook == BookInit /\ [][BookApply]_vars

\* ---------------------------------------------- check_risk_limits by itself
\* The risk check alone: calls come in and run check_risk_limits, and stay
\* where it leaves them.  Between the checks the rest of the engine moves as
\* a whole: some other task's paper trade is filled, applied to its position
\* and tracked in the ledger.
OtherTradeCompletes ==
    /\ Len(applied) < MaxRiskMoves
    /\ \E trade \in BookTrades(next_order_id) :
          LET before == IF trade.symbol \in DOMAIN positions
                        THEN positions[trade.symbol] ELSE NewPosition(trade.symbol)
              request == [NoCall EXCEPT !.symbol = trade.symbol,
                                        !.side = trade.side,
                                        !.quantity = trade.quantity,
                                        !.order_type = "Market"]
              order == ExecutedOrder(NewOrder(next_order_id, request), trade.price)
          IN  /\ positions' = PositionsAfter(positions, trade)
              /\ applied' = Append(applied, AppliedEntry(trade, before))
              /\ active_orders' =
                    [id \in DOMAIN active_orders \cup {order.id} |->
                        IF id = order.id THEN order ELSE active_orders[id]]
    /\ next_order_id' = next_order_id + 1
    /\ UNCHANGED <<notifierVars, botVars, live_trading, is_running, positions_lock, saved_trades,
                   monitors_alive, monitors_spawned, system_notes,
                   callerVars, opVars>>

RiskNext ==
    \/ \E c \in Callers : ExecuteTrade(c)
    \/ \E c \in Callers : CheckRiskLimits(c)
    \/ OtherTradeCompletes

SpecRisk == Init /\ [][RiskNext]_vars

\* ------------------------------------------------------- start() by itself
\* Several tasks share the engine and each calls start() once, on the engine
\* as TradingEngine::new left it; the monitor spawned runs alongside.
StartOps == {"s1", "s2", "s3"}

StartInit ==
    /\ live_trading \in BOOLEAN
    /\ is_running = FALSE
    /\ positions = <<>>
    /\ positions_lock = None
    /\ active_orders = <<>>
    /\ next_order_id = 1
    /\ pc = [c \in Callers |-> "idle"]
    /\ call = [c \in Callers |-> NoCall]
    /\ result = [c \in Callers |-> NoResult]
    /\ touched = [c \in Callers |-> FALSE]
    /\ applied = <<>>
    /\ saved_trades = {}
    /\ trades_started = 0
    /\ lpc = [o \in StartOps |-> "idle"]
    /\ lcall = [o \in StartOps |-> NoLifecycleCall]
    /\ lresult = [o \in StartOps |-> "none"]
    /\ lifecycle_started = 0
    /\ monitors_alive = 0
    /\ monitors_spawned = 0
    /\ system_notes = [start |-> 0, stop |-> 0]
    /\ now = 0
    /\ rate_limiter = NewRateLimiter(now)
    /\ npc = [n \in Senders |-> "idle"]
    /\ nresult = [n \in Senders |-> NoSendResult]
    /\ bot_is_running = FALSE
    /\ bot_log = <<>>

\* The one start() call of task o.
StartCall(o) ==
    /\ lpc[o] = "idle"
    /\ Start(o)

StartNext ==
    \/ \E o \in StartOps : StartCall(o)
    \/ \E o \in StartOps : SpawnMonitor(o)
    \/ \E o \in StartOps : StartNotify(o)
    \/ MonitorTick

SpecStart == StartInit /\ [][StartNext]_vars

\* ------------------------------------------------- the notifier by itself
\* Tasks send messages through one DiscordNotifier while the clock moves.
NotifierNext ==
    \/ \E n \in Senders : SendMessage(n)
    \/ \E n \in Senders : PostMessage(n)
    \/ ClockMoves

SpecNotifier == Init /\ [][NotifierNext]_vars

\* ------------------------------------ the engine of trading/mod.rs by itself
\* start(), stop() and get_status() in any order.  Each runs from its guard
\* to its return without a suspension point, so calls of concurrent tasks
\* take effect one after another.
BotNext ==
    \/ BotEngineStart
    \/ BotEngineStop
    \/ BotEngineGetStatus

SpecBot == Init /\ [][BotNext]_vars

\* ------------------------------------------------------------ vocabulary
\* Long = +quantity, Short = -quantity, Flat = 0; an absent position is 0.
SignedQuantity(symbol) ==
    IF symbol \notin DOMAIN positions THEN 0
    ELSE LET p == positions[symbol]
         IN  IF p.side = "Long" THEN p.quantity
             ELSE IF p.side = "Short" THEN 0 - p.quantity ELSE 0

\* Buy = +q, Sell = -q.
SignedTrade(t) == IF t.side = "Buy" THEN t.quantity ELSE 0 - t.quantity

\* The net signed sum of the trades of `symbol` in a sequence of trades.
RECURSIVE NetSigned(_, _)
NetSigned(trades, symbol) ==
    IF trades = <<>> THEN 0
    ELSE (IF Head(trades).symbol = symbol THEN SignedTrade(Head(trades)) ELSE 0)
         + NetSigned(Tail(trades), symbol)

\* The applied trade was larger than the opposite-side quantity open when it
\* was applied, so part of it was dropped.
Truncated(t) ==
    /\ \/ t.side = "Buy" /\ t.side_before = "Short"
       \/ t.side = "Sell" /\ t.side_before = "Long"
    /\ t.quantity > t.quantity_before

AppliedFor(symbol) == {i \in 1..Len(applied) : applied[i].symbol = symbol}

\* The applied trade met a position on the opposite side: it closed exposure.
Closing(t) ==
    \/ t.side = "Buy" /\ t.side_before = "Short"
    \/ t.side = "Sell" /\ t.side_before = "Long"

\* The quantity an applied closing trade closed.
ClosedQty(t) == Min(t.quantity_before, t.quantity)

\* What an applied trade realized: (price - average at close) per unit closed
\* of a long, (average at close - price) per unit closed of a short, nothing
\* when it closed no exposure.
ClosePnl(t) ==
    IF t.side = "Sell" /\ t.side_before = "Long"
    THEN (t.price - t.average_price_before) * ClosedQty(t)
    ELSE IF t.side = "Buy" /\ t.side_before = "Short"
    THEN (t.average_price_before - t.price) * ClosedQty(t)
    ELSE 0

\* The sum of ClosePnl over the trades of `symbol` in a history.
RECURSIVE SumClosePnl(_, _)
SumClosePnl(trades, symbol) ==
    IF trades = <<>> THEN 0
    ELSE (IF Head(trades).symbol = symbol THEN ClosePnl(Head(trades)) ELSE 0)
         + SumClosePnl(Tail(trades), symbol)

\* The last trade applied to `symbol` (there is one).
LastFor(symbol) ==
    applied[CHOOSE i \in AppliedFor(symbol) : \A j \in AppliedFor(symbol) : j <= i]

\* The last two trades applied to `symbol` were a round trip from Flat: q @ p
\* one way on a Flat position, then q @ p the other way.
RoundTrip(symbol) ==
    \E i, j \in AppliedFor(symbol) :
        /\ i < j
        /\ \A k \in AppliedFor(symbol) : k <= j /\ (k < j => k <= i)
        /\ applied[i].side_before = "Flat"
        /\ applied[j].side # applied[i].side
        /\ applied[j].quantity = applied[i].quantity
        /\ applied[j].price = applied[i].price

\* realized_pnl of `symbol` before the last two trades applied to it.
RealizedBeforeLastTwo(symbol) ==
    LET j == CHOOSE k \in AppliedFor(symbol) : \A l \in AppliedFor(symbol) : l <= k
        i == CHOOSE k \in AppliedFor(symbol) \ {j} :
                 \A l \in AppliedFor(symbol) \ {j} : l <= k
    IN  applied[i].realized_pnl_before

\* Caller c's call is just past check_risk_limits: it returned the check's
\* error, or it passed and submit_order has not run yet.
PastRiskCheck(c) ==
    \/ pc[c] = "submit"
    \/ pc[c] = "done" /\ result[c].stage = "risk"

\* check_risk_limits' position_value in c's call (it had a price to use).
Notional(c) == Unwrap(call[c].risk_price) * call[c].quantity

\* OrderStatus values after which an order no longer changes.
TerminalStatuses == {"Filled", "Canceled", "Rejected"}

\* The execute_trade call that built order `id` is still running.
OrderCallRunning(id) ==
    \E c \in Callers :
        /\ pc[c] \notin {"idle", "done"}
        /\ call[c].order # None
        /\ Unwrap(call[c].order).id = id

\* stop() has returned in op task o, and no execute_trade call ran while it
\* did: none was in flight when it began and none has been begun since.
StoppedUndisturbed(o) ==
    /\ lcall[o].kind = "stop"
    /\ lpc[o] = "done"
    /\ lcall[o].quiet
    /\ trades_started = lcall[o].trades_before

\* The next step of caller d's running execute_trade call, and of op task
\* o's running start() or stop() call.
CallerStep(d) ==
    \/ CheckRiskLimits(d) \/ SubmitOrderLive(d) \/ SimulateOrderExecution(d)
    \/ UpdatePosition(d) \/ PositionNotify(d) \/ SaveTrade(d)
    \/ TradeNotify(d) \/ TrackOrder(d) \/ OrderNotify(d)

OpStep(o) ==
    \/ SpawnMonitor(o) \/ StartNotify(o)
    \/ CancelAllOrders(o) \/ CancelOrder(o) \/ StopNotify(o)

\* The position reached from `position` by applying, one after another and
\* in the order of the sequence, the trades of its symbol.
RECURSIVE ReplayFrom(_, _)
ReplayFrom(position, trades) ==
    IF trades = <<>> THEN position
    ELSE ReplayFrom(IF Head(trades).symbol = position.symbol
                    THEN ApplyTrade(position, Head(trades)) ELSE position,
                    Tail(trades))

\* The data model's conditions on an Order and on a Trade.
WellFormedOrder(order) ==
    /\ order.quantity > 0
    /\ 0 <= order.filled_quantity
    /\ order.filled_quantity <= order.quantity
    /\ order.order_type = "Limit" => IsSome(order.price)

WellFormedTrade(t) == t.quantity > 0 /\ t.price > 0

\* No execute_trade call is in flight.
Quiescent == \A c \in Callers : pc[c] \in {"idle", "done"}

\* The trades applied to positions for the order of caller c's current call.
TradesOfCall(c) ==
    IF call[c].order = None THEN {}
    ELSE LET order == Unwrap(call[c].order)
         IN  {i \in 1..Len(applied) :
                 /\ applied[i].order_id = order.id
                 /\ applied[i].symbol = order.symbol
                 /\ applied[i].side = order.side
                 /\ applied[i].quantity = order.quantity}

\* submit_order has returned Ok(order) to execute_trade in c's current call.
Obtained(c) ==
    \/ pc[c] \in {"track", "order_notify"}
    \/ pc[c] = "done" /\ (result[c].kind = "Ok" \/ result[c].stage = "notify")

C2_NetSignedSum ==
    Quiescent => \A s \in Symbols : SignedQuantity(s) = NetSigned(applied, s)

\* C2 (amended): the signed quantity of each symbol's position equals the net
\* signed sum of the trades applied to it, under every interleaving, provided
\* none of them was larger than the opposite-side quantity open when it was
\* applied (the excess of such a trade is dropped).
C2_NetSignedSumUntruncated ==
    \A s \in Symbols :
        (\A i \in AppliedFor(s) : ~Truncated(applied[i]))
            => SignedQuantity(s) = NetSigned(applied, s)

\* C2 witness: two calls raced on one symbol (the trade of the order built
\* later was applied first), in opposite directions and without truncation.
C2_RacedTrades ==
    /\ Len(applied) = 2
    /\ applied[1].symbol = applied[2].symbol
    /\ applied[1].order_id > applied[2].order_id
    /\ applied[1].side # applied[2].side
    /\ ~Truncated(applied[2])

\* C3: when submit_order returns an error, the call has changed neither the
\* position map nor the order ledger.
C3_SubmissionFailureLeavesState ==
    \A c \in Callers :
        (pc[c] = "done" /\ result[c].kind = "Err" /\ result[c].stage = "submit")
            => ~touched[c]

\* C4: the risk check comes first, and a call whose risk check fails returns
\* that error having built no order, invoked no submission and changed neither
\* the position map nor the ledger.
C4_RiskFailureAborts ==
    \A c \in Callers :
        /\ call[c].risk = "Err" =>
              /\ pc[c] = "done"
              /\ result[c].kind = "Err" /\ result[c].stage = "risk"
              /\ call[c].order = None
              /\ ~call[c].submitted
              /\ ~touched[c]
        /\ (call[c].order # None \/ call[c].submitted \/ touched[c])
              => call[c].risk = "Ok"

\* C4 witness: a call rejected because its notional exceeds the limit.
C4_RiskRejected ==
    \E c \in Callers :
        /\ call[c].risk = "Err"
        /\ result[c].error = "RiskLimitExceeded"

\* C5: execute_trade never returns a notification failure to its caller.
C5_NotificationFailureSwallowed ==
    \A c \in Callers :
        pc[c] = "done" => result[c].error # "NotificationError"

\* C6: when save_trade fails after a fill, execute_trade still returns Ok
\* with the filled order and the trade stays applied.
C6_SaveFailureNotFatal ==
    \A c \in Callers :
        (pc[c] = "done" /\ call[c].save = "Err")
            => /\ result[c].kind = "Ok"
               /\ TradesOfCall(c) # {}

\* C7: in paper and in live mode, when execute_trade has obtained a Filled
\* order from submit_order, exactly one trade built from that fill has been
\* applied to the position; an order that is not filled applies none.
C7_FilledOrderAppliesOneTrade ==
    \A c \in Callers :
        Obtained(c) =>
            IF Unwrap(call[c].order).status = "Filled"
            THEN Cardinality(TradesOfCall(c)) = 1
            ELSE TradesOfCall(c) = {}

\* C8: a start() call that finds the engine running returns AlreadyRunning at
\* once and changes nothing: the flag stays true, no monitor is spawned, no
\* notification is sent, positions and ledger are untouched.
C8_StartWhileRunning ==
    [][\A o \in Ops :
          (is_running /\ lcall'[o].seq # lcall[o].seq /\ lcall'[o].kind = "start")
              => /\ lresult'[o] = "AlreadyRunning"
                 /\ lpc'[o] = "done"
                 /\ is_running'
                 /\ UNCHANGED <<monitors_alive, monitors_spawned, system_notes,
                                positions, active_orders>>]_vars

\* C8 witness: start() was called on a running engine and refused.
C8_StartRefused ==
    \E o \in Ops :
        /\ lcall[o].kind = "start"
        /\ lcall[o].was_running
        /\ lresult[o] = "AlreadyRunning"

\* C9: stop() on a stopped engine is a no-op: it cancels nothing, sends no
\* stop notification and returns no error.
C9_StopWhenStoppedIsNoOp ==
    \A o \in Ops :
        (lcall[o].kind = "stop" /\ ~lcall[o].was_running)
            => /\ lcall[o].cancelled = {}
               /\ ~lcall[o].notified
               /\ lresult[o] # "NotificationError"

\* C10: a stop() that follows a stop() returns no error and cancels no order
\* the first one cancelled.
C10_SecondStopIdempotent ==
    \A o \in Ops :
        (lcall[o].kind = "stop" /\ lcall[o].prev_kind = "stop")
            => /\ lresult[o] # "NotificationError"
               /\ lcall[o].cancelled \cap lcall[o].prev_cancelled = {}

\* C11: after any sequence of trades on one symbol the position's
\* realized_pnl is the sum, over the trades that closed exposure, of
\* (price - average at close) * closed quantity for a long and
\* (average at close - price) * closed quantity for a short, the closed
\* quantity being min(position quantity before the trade, trade quantity).
C11_AccountingLaw ==
    \A s \in DOMAIN positions :
        positions[s].realized_pnl = SumClosePnl(applied, s)

\* C11 witness: a symbol whose realized P&L is the sum of two closing trades
\* that each realized something, the second one larger than what was open.
C11_TwoClosingTrades ==
    \E s \in DOMAIN positions :
        \E i, j \in AppliedFor(s) :
            /\ i < j
            /\ Closing(applied[i]) /\ ClosePnl(applied[i]) # 0
            /\ Closing(applied[j]) /\ ClosePnl(applied[j]) # 0
            /\ Truncated(applied[j])

\* C12: a trade applied to a Flat position or to one on the trade's own side
\* sets average_price to (average_price * quantity + price * trade quantity)
\* / (quantity + trade quantity), adds the trade quantity to quantity and sets
\* side to the trade's direction; buy 1 @ 100 then buy 1 @ 200 gives Long,
\* quantity 2, average_price 150.
C12_WeightedAverage ==
    /\ \A s \in DOMAIN positions :
          LET t == LastFor(s)
              p == positions[s]
          IN  ~Closing(t) =>
                 /\ p.average_price =
                        DecDiv(t.average_price_before * t.quantity_before
                                  + t.price * t.quantity,
                               t.quantity_before + t.quantity)
                 /\ p.quantity = t.quantity_before + t.quantity
                 /\ p.side = IF t.side = "Buy" THEN "Long" ELSE "Short"
    /\ \A s \in DOMAIN positions :
          ( /\ Cardinality(AppliedFor(s)) = 2
            /\ \A i \in AppliedFor(s) :
                  applied[i].side = "Buy" /\ applied[i].quantity = 1
            /\ \E i, j \in AppliedFor(s) :
                  /\ i < j
                  /\ applied[i].price = 100 * DecScale
                  /\ applied[j].price = 200 * DecScale )
          => /\ positions[s].side = "Long"
             /\ positions[s].quantity = 2
             /\ positions[s].average_price = 150 * DecScale

\* C12 witness: buy 1 @ 100 then buy 1 @ 200 on one symbol.
C12_BoughtTwice ==
    \E s \in DOMAIN positions :
        /\ Len(applied) = 2
        /\ AppliedFor(s) = {1, 2}
        /\ applied[1].side = "Buy" /\ applied[1].quantity = 1
        /\ applied[1].price = 100 * DecScale
        /\ applied[2].side = "Buy" /\ applied[2].quantity = 1
        /\ applied[2].price = 200 * DecScale
        /\ positions[s].average_price = 150 * DecScale

\* C13: a trade applied to a position on the opposite side closes
\* min(quantity, trade quantity): realized_pnl grows by (average_price -
\* price) * closed quantity for a short and (price - average_price) * closed
\* quantity for a long, quantity drops by the closed quantity, and when it
\* reaches 0 the side becomes Flat and average_price 0.
C13_OpposingTradeCloses ==
    \A s \in DOMAIN positions :
        LET t == LastFor(s)
            p == positions[s]
            close_qty == Min(t.quantity_before, t.quantity)
            pnl == IF t.side_before = "Short"
                   THEN (t.average_price_before - t.price) * close_qty
                   ELSE (t.price - t.average_price_before) * close_qty
        IN  Closing(t) =>
               /\ p.realized_pnl = t.realized_pnl_before + pnl
               /\ p.quantity = t.quantity_before - close_qty
               /\ p.quantity = 0 => p.side = "Flat" /\ p.average_price = 0

\* C13 witness: a short bought back at a profit, down to quantity 0.
C13_ShortBoughtBack ==
    \E s \in DOMAIN positions :
        /\ LastFor(s).side_before = "Short" /\ LastFor(s).side = "Buy"
        /\ positions[s].realized_pnl > LastFor(s).realized_pnl_before
        /\ positions[s].quantity = 0

\* C14: an opposing trade larger than the position closes only the
\* position's quantity: the excess is dropped and the position ends Flat with
\* quantity 0, not flipped to the other side; Long 1 sold 2 @ 100 ends Flat.
C14_Truncation ==
    \A s \in DOMAIN positions :
        LET t == LastFor(s)
            p == positions[s]
        IN  Truncated(t) =>
               /\ p.side = "Flat"
               /\ p.quantity = 0
               /\ p.average_price = 0
               /\ p.realized_pnl = t.realized_pnl_before
                     + (IF t.side_before = "Long"
                        THEN t.price - t.average_price_before
                        ELSE t.average_price_before - t.price) * t.quantity_before

\* C14 witness: a Long of quantity 1 sold 2 @ 100.
C14_LongOneSoldTwo ==
    \E s \in DOMAIN positions :
        LET t == LastFor(s)
        IN  /\ t.side_before = "Long" /\ t.quantity_before = 1
            /\ t.side = "Sell" /\ t.quantity = 2 /\ t.price = 100 * DecScale
            /\ positions[s].side = "Flat"

\* C15: from Flat, buy q @ p followed by sell q @ p, or sell q @ p followed
\* by buy q @ p, returns the position to Flat with quantity 0 and leaves
\* realized_pnl as it was (0 for a fresh position).
C15_RoundTrip ==
    \A s \in DOMAIN positions :
        RoundTrip(s) =>
            /\ positions[s].side = "Flat"
            /\ positions[s].quantity = 0
            /\ positions[s].realized_pnl = RealizedBeforeLastTwo(s)
            /\ Cardinality(AppliedFor(s)) = 2 => positions[s].realized_pnl = 0

\* C15 witness: a round trip by a position that had realized a profit before,
\* sell first.
C15_SecondRoundTrip ==
    \E s \in DOMAIN positions :
        /\ RoundTrip(s)
        /\ LastFor(s).side = "Buy"
        /\ RealizedBeforeLastTwo(s) > 0

C17_RealizedPnlFrame ==
    \A s \in DOMAIN positions :
        LET t == LastFor(s)
        IN  /\ ~Closing(t) => positions[s].realized_pnl = t.realized_pnl_before
            /\ positions[s].realized_pnl # t.realized_pnl_before => Closing(t)

\* C17 witness: a position that carries realized P&L is added to at a price
\* other than its average.
C17_AddedAfterProfit ==
    \E s \in DOMAIN positions :
        LET t == LastFor(s)
        IN  /\ ~Closing(t)
            /\ t.side_before # "Flat"
            /\ t.realized_pnl_before # 0
            /\ t.price # t.average_price_before
            /\ positions[s].realized_pnl = t.realized_pnl_before

\* C18: a symbol's Position is created, zeroed and Flat, by the first trade
\* applied for that symbol (so it holds exactly that trade afterwards), and is
\* never taken out of the map: a symbol present stays present through every
\* step, those of stop() and those that bring it back to quantity 0 included.
C18_PositionNeverDeleted ==
    [][/\ \A s \in DOMAIN positions : s \in DOMAIN positions'
       /\ \A s \in DOMAIN positions' \ DOMAIN positions :
             /\ Len(applied') = Len(applied) + 1
             /\ LET t == applied'[Len(applied')]
                     p == positions'[s]
                 IN  /\ t.symbol = s
                     /\ p.symbol = s
                     /\ p.side = IF t.side = "Buy" THEN "Long" ELSE "Short"
                     /\ p.quantity = t.quantity
                     /\ p.average_price = t.price
                     /\ p.realized_pnl = 0
                     /\ p.unrealized_pnl = 0]_vars

\* C18 witness: stop() has run to its end on an engine that holds a position.
C18_PositionAfterStop ==
    \E o \in Ops :
        /\ lcall[o].kind = "stop"
        /\ lpc[o] = "done"
        /\ DOMAIN positions # {}

\* C19: the risk check fails with the limit-exceeded error exactly when
\* price * quantity > max_position_size, the price being the current price or
\* the fallback price; a notional equal to the limit passes.
C19_RiskLimitIffOver ==
    \A c \in Callers :
        PastRiskCheck(c) =>
            /\ result[c].error = "RiskLimitExceeded" => IsSome(call[c].risk_price)
            /\ IsSome(call[c].risk_price) =>
                  /\ (result[c].kind = "Err" /\ result[c].error = "RiskLimitExceeded")
                        <=> Notional(c) > max_position_size * DecScale
                  /\ (pc[c] = "submit" /\ call[c].risk = "Ok")
                        <=> Notional(c) <= max_position_size * DecScale

\* C19 witness: one call passed with a notional exactly on the limit while
\* another was rejected at a price the feed reported.
C19_OnTheLimitAndOver ==
    \E c, d \in Callers :
        /\ pc[c] = "submit"
        /\ Notional(c) = max_position_size * DecScale
        /\ pc[d] = "done" /\ result[d].error = "RiskLimitExceeded"
        /\ call[d].risk_feed = "Some"

C21_PaperOrderFilled ==
    \A c \in Callers :
        /\ (~live_trading /\ Obtained(c)) =>
              LET order == Unwrap(call[c].order)
              IN  /\ order.status = "Filled"
                  /\ order.filled_quantity = order.quantity
                  /\ order.filled_quantity = call[c].quantity
                  /\ call[c].fill_feed \in {"None", "Some"}
                  /\ order.average_price = Some(Unwrap(call[c].trade).price)
                  /\ Unwrap(order.average_price) \in Prices \cup {DefaultPrice * DecScale}
                  /\ call[c].fill_feed = "None"
                        <=> order.average_price = Some(DefaultPrice * DecScale)
        /\ (~live_trading /\ pc[c] = "done" /\ result[c].kind = "Ok") =>
              result[c].order = call[c].order

\* C21 witness: a paper Limit order priced at 4000 was returned filled at
\* the 5000 read from the feed.
C21_LimitFilledAtMarket ==
    \E c \in Callers :
        /\ ~live_trading
        /\ pc[c] = "done" /\ result[c].kind = "Ok"
        /\ call[c].price = Some(4000 * DecScale)
        /\ Unwrap(result[c].order).average_price = Some(5000 * DecScale)

\* C22: the ledger holds only active orders: once the execute_trade call
\* that submitted an order has completed, the ledger holds that order only if
\* its status is not terminal (Filled, Canceled, Rejected).
C22_LedgerHoldsOnlyActive ==
    \A id \in DOMAIN active_orders :
        active_orders[id].status \in TerminalStatuses => OrderCallRunning(id)

\* C23: stop()'s cancel_all removes from the ledger every order of the
\* snapshot it took, so when no execute_trade ran concurrently the ledger is
\* empty once stop() has returned; and no step of stop() changes a Position.
C23_CancelAllEmptiesLedger ==
    /\ [](\A o \in Ops :
             /\ (lcall[o].kind = "stop" /\ lpc[o] \in {"stop_notify", "done"}) =>
                   /\ lcall[o].snapshot = {}
                   /\ lcall[o].cancelled \cap DOMAIN active_orders = {}
             /\ StoppedUndisturbed(o) => DOMAIN active_orders = {})
    /\ [][\A o \in Ops :
             (lcall'[o].kind = "stop" /\ <<lpc[o], lcall[o]>> # <<lpc'[o], lcall'[o]>>)
                 => positions' = positions]_vars

\* C23 witness: a paper engine holding a position and its order was stopped
\* with no call running; the order was cancelled and stop() has returned.
C23_StoppedWithOrders ==
    \E o \in Ops :
        /\ ~live_trading
        /\ StoppedUndisturbed(o)
        /\ lcall[o].cancelled # {}
        /\ DOMAIN positions # {}

\* C24: across any sequence of start() and stop() calls at most one monitor
\* task is alive at any time.
C24_AtMostOneMonitor == monitors_alive <= 1

\* C25: stop() sets the running flag to false and returns without waiting
\* for the monitor; when the flag is false and a monitor is alive, then
\* unless the flag is set again a monitor reads it at its next tick and
\* exits, until none is alive.
C25_CooperativeShutdown ==
    /\ [][\A o \in Ops :
             (lcall'[o].seq # lcall[o].seq /\ lcall'[o].kind = "stop")
                 => ~is_running' /\ monitors_alive' = monitors_alive]_vars
    /\ (~is_running /\ monitors_alive > 0) ~> (is_running \/ monitors_alive = 0)

\* C25 witness: stop() has returned while the monitor it leaves behind is
\* still alive.
C25_StoppedMonitorAlive ==
    \E o \in Ops :
        /\ lcall[o].kind = "stop" /\ lpc[o] = "done"
        /\ ~is_running
        /\ monitors_alive > 0

\* C26: in paper mode a monitor tick leaves the order ledger, the position
\* map and the running flag as they are.
C26_MonitorTickIsNoOp ==
    [][(~live_trading /\ MonitorTick)
          => UNCHANGED <<active_orders, positions, is_running>>]_vars

\* C26 witness: a monitor is alive on a running paper engine whose ledger and
\* position map are not empty, so its tick has orders to look at.
C26_MonitorOverOrders ==
    /\ ~live_trading
    /\ is_running
    /\ monitors_alive > 0
    /\ DOMAIN active_orders # {}
    /\ DOMAIN positions # {}

\* C27: while a live execute_trade call is suspended in the exchange
\* submission it holds no engine lock, and whatever else is under way can
\* take its next step without it: every other running execute_trade call,
\* get_positions, get_active_orders, a running start() or stop(), and the
\* monitor.
C27_HungSubmissionBlocksNobody ==
    \A c \in Callers :
        (live_trading /\ pc[c] = "submit") =>
            /\ positions_lock # Some(c)
            /\ ENABLED GetPositions
            /\ ENABLED GetActiveOrders
            /\ \A d \in Callers \ {c} :
                  pc[d] \notin {"idle", "done"} => ENABLED CallerStep(d)
            /\ \A o \in Ops :
                  lpc[o] \notin {"idle", "done"} => ENABLED OpStep(o)
            /\ monitors_alive > 0 => ENABLED MonitorTick

\* C27 witness: with one live call still in its submission, a call whose
\* order was built later has run to its end and returned Ok.
C27_OvertakenWhileSubmitting ==
    \E c, d \in Callers :
        /\ live_trading
        /\ pc[c] = "submit"
        /\ pc[d] = "done" /\ result[d].kind = "Ok"
        /\ Unwrap(call[d].order).id > Unwrap(call[c].order).id

\* C28: under every interleaving of concurrent execute_trade calls, at most
\* one call holds the position-map write lock, and each symbol's Position
\* (side, quantity, average_price, realized_pnl) is what applying its trades
\* one after another gives, in the order in which they took the lock.
C28_SerializedByWriteLock ==
    /\ positions_lock # None =>
          /\ Unwrap(positions_lock) \in Callers
          /\ pc[Unwrap(positions_lock)] = "position_notify"
    /\ \A c \in Callers : pc[c] = "position_notify" => positions_lock = Some(c)
    /\ \A s \in Symbols :
          /\ s \in DOMAIN positions <=> AppliedFor(s) # {}
          /\ s \in DOMAIN positions =>
                positions[s] = ReplayFrom(NewPosition(s), applied)

\* C28 witness: two calls on one symbol took the lock in the order opposite
\* to the one their orders were built in, and the position differs from what
\* the order of building would have given.
C28_LockOrderNotIssueOrder ==
    \E s \in DOMAIN positions :
        /\ Len(applied) = 2
        /\ AppliedFor(s) = {1, 2}
        /\ applied[1].order_id > applied[2].order_id
        /\ positions[s] # ReplayFrom(NewPosition(s), <<applied[2], applied[1]>>)

\* C29: the outcome of the risk check is a function of price, quantity and
\* max_position_size only: two checks made at the same price for the same
\* quantity end alike, whatever the sides and symbols of the two requests,
\* the positions and the ledger each check found, and the calls in flight.
C29_SingleRequestCheck ==
    \A c, d \in Callers :
        ( /\ PastRiskCheck(c) /\ PastRiskCheck(d)
          /\ IsSome(call[c].risk_price)
          /\ call[c].risk_price = call[d].risk_price
          /\ call[c].quantity = call[d].quantity )
        => /\ call[c].risk = call[d].risk
           /\ result[c].error = result[d].error

\* C29 witness: a Buy checked on an empty engine and a Sell of the same
\* quantity checked at the same price after a position and an order had
\* appeared, both passed and both still in flight.
C29_SameOutcomeOtherContext ==
    \E c, d \in Callers :
        /\ pc[c] = "submit" /\ pc[d] = "submit"
        /\ call[c].risk_price = call[d].risk_price
        /\ call[c].quantity = call[d].quantity
        /\ call[c].side = "Buy" /\ call[d].side = "Sell"
        /\ ~call[c].risk_saw_positions /\ ~call[c].risk_saw_orders
        /\ call[d].risk_saw_positions /\ call[d].risk_saw_orders

\* C30: every Order returned by execute_trade or held in the ledger, and
\* every Trade applied to a Position, is well formed: quantity > 0,
\* 0 <= filled_quantity <= quantity, a price whenever order_type is Limit.
C30_WellFormed ==
    /\ \A c \in Callers :
          result[c].kind = "Ok" => WellFormedOrder(Unwrap(result[c].order))
    /\ \A id \in DOMAIN active_orders : WellFormedOrder(active_orders[id])
    /\ \A i \in 1..Len(applied) : WellFormedTrade(applied[i])

\* The start() call of task o got past the running-flag check: it is between
\* the check and its return, or it returned something else than
\* AlreadyRunning.
StartPassed(o) ==
    /\ lcall[o].kind = "start"
    /\ \/ lpc[o] \in {"spawn_monitor", "start_notify"}
       \/ lpc[o] = "done" /\ lresult[o] # "AlreadyRunning"

\* The start() call of task o returned AlreadyRunning.
StartRefused(o) ==
    /\ lcall[o].kind = "start"
    /\ lpc[o] = "done"
    /\ lresult[o] = "AlreadyRunning"

\* C31: of the start() calls that run concurrently on a stopped engine
\* exactly one passes the running-flag check and spawns a monitor; every
\* other call returns AlreadyRunning and spawns nothing.
C31_OneStartWins ==
    lifecycle_started > 0 =>
        \E w \in StartOps :
            /\ StartPassed(w)
            /\ \A o \in StartOps \ {w} : lpc[o] = "idle" \/ StartRefused(o)
            /\ monitors_spawned = IF lpc[w] = "spawn_monitor" THEN 0 ELSE 1
            /\ monitors_alive = monitors_spawned

\* C31 witness: two calls were refused while the call that passed the check
\* had not yet spawned its monitor.
C31_RefusedWhileWinnerInFlight ==
    \E w \in StartOps :
        /\ lpc[w] = "spawn_monitor"
        /\ \A o \in StartOps \ {w} : StartRefused(o)

\* C32: when start() returns an error other than AlreadyRunning (the start
\* notification failed), the engine is left not running and no monitor task
\* is left alive.
C32_FailedStartLeavesStopped ==
    \A o \in Ops :
        ( /\ lcall[o].kind = "start"
          /\ lpc[o] = "done"
          /\ lresult[o] = "NotificationError" )
        => /\ ~is_running
           /\ monitors_alive = 0

\* C33: on an engine that was never started no execute_trade call returns
\* an order, and positions and the ledger are as TradingEngine::new left
\* them.
C33_NotRunningRejected ==
    lifecycle_started = 0 =>
        /\ \A c \in Callers : result[c].kind # "Ok"
        /\ DOMAIN positions = {}
        /\ DOMAIN active_orders = {}

\* C34: while an execute_trade call waits for its position notification,
\* get_positions can complete and so can the update_position of a call on
\* another symbol.
C34_NoLockAcrossAwait ==
    \A c \in Callers :
        pc[c] = "position_notify" =>
            /\ ENABLED GetPositions
            /\ \A d \in Callers \ {c} :
                  ( /\ pc[d] = "update_position"
                    /\ Unwrap(call[d].trade).symbol # Unwrap(call[c].trade).symbol )
                  => ENABLED UpdatePosition(d)

\* The trade of call c has been applied to its position.
TradeApplied(c) ==
    /\ IsSome(call[c].trade)
    /\ pc[c] \in {"position_notify", "save_trade", "trade_notify", "track",
                  "order_notify", "done"}

\* C35: in paper mode every fill applied to a position respects the risk
\* limit at its fill price, fill price * quantity <= max_position_size, also
\* when the feed reports one price to the risk check and another to the fill.
C35_FillWithinRiskLimit ==
    \A c \in Callers :
        ( /\ ~live_trading
          /\ TradeApplied(c)
          /\ call[c].risk_feed = "Some"
          /\ call[c].fill_feed = "Some" )
        => Unwrap(call[c].trade).price * Unwrap(call[c].trade).quantity
              <= max_position_size * DecScale

\* Order id has a trade applied to its position.
HasAppliedTrade(id) == \E i \in 1..Len(applied) : applied[i].order_id = id

\* Some call holds order id between update_position and orders.insert.
HeldForTracking(id) ==
    \E c \in Callers :
        /\ pc[c] \in {"position_notify", "save_trade", "trade_notify", "track"}
        /\ IsSome(call[c].order)
        /\ Unwrap(call[c].order).id = id

\* The fill of order id is in its position, the order is not in the ledger
\* and no call is left that would insert it.
Stranded(id) ==
    /\ HasAppliedTrade(id)
    /\ id \notin DOMAIN active_orders
    /\ ~HeldForTracking(id)

\* The call of c failed between update_position and orders.insert.
FailedAfterApply(c) ==
    /\ pc[c] = "done"
    /\ result[c].kind = "Err"
    /\ result[c].stage = "submit"
    /\ IsSome(call[c].trade)

\* C36: the position update and the ledger update of one execute_trade are
\* two steps, position first: in paper mode every order in the ledger has its
\* fill in the position already, an order whose call failed between the two
\* steps has its fill in the position and is not in the ledger, and an order
\* left like that stays like that.
C36_PositionBeforeLedger ==
    /\ [](/\ ~live_trading =>
                \A id \in DOMAIN active_orders : HasAppliedTrade(id)
          /\ \A c \in Callers :
                FailedAfterApply(c) => Stranded(Unwrap(call[c].order).id))
    /\ [][\A id \in 1..next_order_id : Stranded(id) => Stranded(id)']_vars

\* C36 witness: a call ended with a persistence error after its fill went
\* into the position; the position is open, the ledger does not have the
\* order, and a running engine's monitor is there to see it.
C36_FillWithoutOrder ==
    \E c \in Callers :
        /\ FailedAfterApply(c)
        /\ result[c].error = "PersistenceError"
        /\ Stranded(Unwrap(call[c].order).id)
        /\ positions[call[c].symbol].quantity > 0
        /\ is_running
        /\ monitors_alive > 0

\* Task o begins a start() call that gets past the running-flag check.
StartPasses(o) ==
    /\ lpc[o] \in {"idle", "done"}
    /\ lpc'[o] = "spawn_monitor"
    /\ lcall'[o].kind = "start"

\* Task o begins a stop() call.
StopBegins(o) ==
    /\ lpc[o] \in {"idle", "done"}
    /\ lpc'[o] = "cancel_all_orders"
    /\ lcall'[o].kind = "stop"

C38_ApplyFrame ==
    [][\A c \in Callers :
          (pc[c] = "update_position" /\ pc'[c] = "position_notify") =>
              LET symbol == Unwrap(call[c].trade).symbol IN
              /\ DOMAIN positions' = DOMAIN positions \cup {symbol}
              /\ \A s \in DOMAIN positions \ {symbol} : positions'[s] = positions[s]
              /\ active_orders' = active_orders]_vars

\* C38 witness: a trade was applied on one symbol while another symbol had
\* an open position and the ledger an order; that position is what its own
\* trade made it.
C38_OtherSymbolOpen ==
    /\ Len(applied) = 2
    /\ applied[1].symbol # applied[2].symbol
    /\ DOMAIN active_orders # {}
    /\ positions[applied[1].symbol].quantity = applied[1].quantity
    /\ positions[applied[1].symbol].average_price = applied[1].price

\* A step in which the limiter's window is begun anew: the counter goes back
\* or the window start moves.
LimiterReset ==
    \/ rate_limiter'.message_count < rate_limiter.message_count
    \/ rate_limiter'.last_message_time # rate_limiter.last_message_time

\* C39: the notifier's rate limiter lets at most max_messages_per_minute
\* messages through in one window: message_count <= max_messages_per_minute
\* in every reachable state, the counter is reset only when at least 60
\* seconds have passed since the window start, and a message the limiter
\* refuses is dropped with send_message returning Ok.
C39_RateLimited ==
    /\ [](/\ rate_limiter.message_count <= rate_limiter.max_messages_per_minute
          /\ \A n \in Senders : nresult[n].refused => nresult[n].kind = "Ok")
    /\ [][LimiterReset =>
              now - rate_limiter.last_message_time >= WindowSeconds]_vars

\* The op of the last call in the log that returned Ok and changed the flag.
RECURSIVE BotLastChange(_)
BotLastChange(log) ==
    IF log = <<>> THEN "none"
    ELSE LET e == log[Len(log)] IN
         IF e.kind = "Ok" /\ e.before # e.after THEN e.op
         ELSE BotLastChange(SubSeq(log, 1, Len(log) - 1))

\* C40: for the engine of trading/mod.rs, start() on a running engine
\* returns an error and leaves the flag true, stop() on a stopped engine
\* returns Ok and leaves the flag false, and after any sequence of calls
\* get_status reports running exactly when the last successful call that
\* changed the state was start().
C40_BotEngineLifecycle ==
    /\ \A i \in 1..Len(bot_log) :
          LET e == bot_log[i] IN
          /\ (e.op = "start" /\ e.before) => (e.kind = "Err" /\ e.after)
          /\ (e.op = "stop" /\ ~e.before) => (e.kind = "Ok" /\ ~e.after)
          /\ e.op = "get_status" =>
                /\ e.kind = "Ok"
                /\ e.value = IF BotLastChange(SubSeq(bot_log, 1, i - 1)) = "start"
                             THEN "running" ELSE "stopped"
    /\ bot_is_running = (BotLastChange(bot_log) = "start")

\* C40 witness: stop() was called on the stopped engine, start() on the
\* running one, and get_status after them reported running.
C40_RefusedStartNoOpStop ==
    \E i, j, k \in 1..Len(bot_log) :
        /\ i < k /\ j < k
        /\ bot_log[i].op = "start" /\ bot_log[i].before
        /\ bot_log[j].op = "stop" /\ ~bot_log[j].before
        /\ bot_log[k].op = "get_status" /\ bot_log[k].value = "running"

====
